---- MODULE Spec2Model ----
(***************************************************************************)
(* A model of the request handlers of src/app.py (a Flask catalogue of     *)
(* movies with a watchlist, reviews and an admin role) over its four       *)
(* tables and the login sessions of its clients.                           *)
(*                                                                         *)
(* Every handler is one action: the guard of the decorator, the early      *)
(* returns, the staged change and the commit with its except clauses.      *)
(* The concurrent specifications split the two read-then-write handlers    *)
(* at the only point where another request can interleave: between the     *)
(* read that stages the change and the commit.                             *)
(*                                                                         *)
(* Not modelled: Review.timestamp (no handler branches on it; the reviews  *)
(* of a detail page are kept as a set), and the rendered HTML (a response  *)
(* is its operation, its flashed messages, its redirect target and the     *)
(* rows handed to the template).                                           *)
(***************************************************************************)
EXTENDS Integers, Sequences, FiniteSets, TLC

VARIABLES
    users,      \* table user: set of rows [id, username, email, password_hash]
    movies,     \* table movie: set of rows [id, title, genre, poster, year, duration, synopsis]
    watchlist,  \* table watchlist_item: set of rows [id, user_id, movie_id]
    reviews,    \* table review: set of rows [id, user_id, movie_id, rating, text]
    session,    \* per client: the user id flask-login keeps in the cookie, or Anonymous
    resp,       \* the response of the last completed request
    txn,        \* per worker: the request between its read and its commit
    crawl,      \* the pages the infinite-scroll client has fetched so far
    detail      \* what movie_detail handed to movie_detail.html the last time

vars == <<users, movies, watchlist, reviews, session, resp, txn, crawl, detail>>

-----------------------------------------------------------------------------
(* Bounds of the model *)

MaxUsers == 2
MaxMovies == 13
MaxRowId == 3

(* Clients (browsers, each with its own session cookie) and request workers *)
Clients == {"c1", "c2"}
Workers == {"w1", "w2"}

-----------------------------------------------------------------------------
(* Values *)

\* current_user of a request without a logged-in session (flask-login's AnonymousUserMixin)
Anonymous == 0

\* per_page of api_movies
per_page == 12

AdminName == "admin"

\* werkzeug's generate_password_hash / check_password_hash: the digest is a
\* function of the password, and only the password it was made from matches.
generate_password_hash(password) == <<"pbkdf2", password>>

check_password_hash(pwhash, password) == pwhash = generate_password_hash(password)

\* A form field: request.form.get(name) is None when the field is absent.
\* The value of a field is a sequence of one-character strings where the
\* handler parses it (rating, year) and a string where it only stores it.
Absent == [present |-> FALSE, value |-> <<>>]

AbsentText == [present |-> FALSE, value |-> ""]

Field(v) == [present |-> TRUE, value |-> v]

\* Python's truth value of request.form.get(name): None and "" are false.
Truthy(f) == f.present /\ f.value # <<>>

TruthyText(f) == f.present /\ f.value # ""

-----------------------------------------------------------------------------
(* int(str) of Python: surrounding whitespace is stripped, an optional sign,
   then decimal digits, single underscores allowed between digits; anything
   else raises ValueError. A string is a sequence of one-character strings. *)

DigitVal == [ch \in {"0", "1", "2", "3", "4", "5", "6", "7", "8", "9"} |->
               CASE ch = "0" -> 0 [] ch = "1" -> 1 [] ch = "2" -> 2 [] ch = "3" -> 3
                 [] ch = "4" -> 4 [] ch = "5" -> 5 [] ch = "6" -> 6 [] ch = "7" -> 7
                 [] ch = "8" -> 8 [] ch = "9" -> 9]

IsDigit(ch) == ch \in DOMAIN DigitVal

IsSpace(ch) == ch \in {" ", "\t", "\n"}

RECURSIVE LStrip(_)
LStrip(s) == IF s # <<>> /\ IsSpace(Head(s)) THEN LStrip(Tail(s)) ELSE s

RECURSIVE RStrip(_)
RStrip(s) == IF s # <<>> /\ IsSpace(s[Len(s)]) THEN RStrip(SubSeq(s, 1, Len(s) - 1)) ELSE s

Strip(s) == RStrip(LStrip(s))

RECURSIVE DigitsValue(_, _)
DigitsValue(s, acc) ==
    IF s = <<>> THEN acc
    ELSE IF Head(s) = "_" THEN DigitsValue(Tail(s), acc)
    ELSE DigitsValue(Tail(s), 10 * acc + DigitVal[Head(s)])

ValidDigits(s) ==
    /\ s # <<>>
    /\ IsDigit(s[1]) /\ IsDigit(s[Len(s)])
    /\ \A i \in 1..Len(s) : IsDigit(s[i]) \/ s[i] = "_"
    /\ \A i \in 1..(Len(s) - 1) : ~(s[i] = "_" /\ s[i + 1] = "_")

ValueError == [ok |-> FALSE, value |-> 0]

ParseInt(s) ==
    LET t == Strip(s)
        signed == t # <<>> /\ Head(t) \in {"+", "-"}
        body == IF signed THEN Tail(t) ELSE t
        sign == IF signed /\ Head(t) = "-" THEN -1 ELSE 1
    IN  IF ValidDigits(body)
        THEN [ok |-> TRUE, value |-> sign * DigitsValue(body, 0)]
        ELSE ValueError

-----------------------------------------------------------------------------
(* seed_data: the admin user, the ten sample movies in the order of the list
   (ids 1..10) and the sample review of "Dune: Part One" by the admin. *)

SeedMovie(i, t, g, y, d) ==
    [id |-> i, title |-> t, genre |-> g, poster |-> "seed-poster",
     year |-> y, duration |-> d, synopsis |-> "seed-synopsis"]

SeedMovies ==
    { SeedMovie(1, "Interstellar", "Sci-Fi", 2014, "2h 49m"),
      SeedMovie(2, "Dune: Part One", "Sci-Fi", 2021, "2h 35m"),
      SeedMovie(3, "Harry Potter and the Sorcerer's Stone", "Fantasy", 2001, "2h 32m"),
      SeedMovie(4, "3 Idiots", "Comedy", 2009, "2h 50m"),
      SeedMovie(5, "Life of Pi", "Adventure", 2012, "2h 7m"),
      SeedMovie(6, "Rio", "Animation", 2011, "1h 36m"),
      SeedMovie(7, "Inception", "Sci-Fi", 2010, "2h 28m"),
      SeedMovie(8, "Avatar", "Fantasy", 2009, "2h 42m"),
      SeedMovie(9, "The Dark Knight", "Action", 2008, "2h 32m"),
      SeedMovie(10, "Frozen", "Animation", 2013, "1h 42m") }

SeedUsers ==
    { [id |-> 1, username |-> AdminName, email |-> "admin@flix.com",
       password_hash |-> generate_password_hash("password123")] }

SeedReviews ==
    { [id |-> 1, user_id |-> 1, movie_id |-> 2, rating |-> 5,
       text |-> "A visually stunning and faithful adaptation."] }

-----------------------------------------------------------------------------
(* Queries *)

Max(S) == CHOOSE x \in S : \A y \in S : y <= x

\* A store that hands out the smallest id no row of the table has
NextIdLowestFree(table) ==
    CHOOSE i \in 1..(Cardinality(table) + 1) :
        /\ i \notin {r.id : r \in table}
        /\ \A j \in 1..(i - 1) : j \in {r.id : r \in table}

\* The id SQLite gives a new row of an INTEGER PRIMARY KEY table: one more
\* than the largest id in the table.
NextId(table) == IF table = {} THEN 1 ELSE Max({r.id : r \in table}) + 1

\* db.session.get(Movie, movie_id)
GetMovie(movie_id) == {m \in movies : m.id = movie_id}

\* A handler that takes every movie id for a movie
MovieAlwaysFound(movie_id) == FALSE

\* "if not movie" of movie_detail, toggle_watchlist and submit_review
MovieNotFound(movie_id) == GetMovie(movie_id) = {}

\* load_user: the row of the session's user id, or none
GetUser(user_id) == {u \in users : u.id = user_id}

\* current_user of client c
CurrentUser(c) == IF GetUser(session[c]) = {} THEN Anonymous ELSE session[c]

is_authenticated(c) == CurrentUser(c) # Anonymous

\* current_user.username (read only behind @login_required)
current_username(c) ==
    IF GetUser(CurrentUser(c)) = {} THEN ""
    ELSE (CHOOSE u \in users : u.id = CurrentUser(c)).username

\* A route without the decorator
login_not_required(c) == TRUE

\* @login_required lets the request of client c through
login_required(c) == is_authenticated(c)

\* The (user, movie) pairs of a table of rows
Pairs(table) == {<<r.user_id, r.movie_id>> : r \in table}

-----------------------------------------------------------------------------
(* Flashed messages (an f-string is flashed without the name it formats in) *)

MsgLoginRequired == "Please log in to access this page."
MsgMovieNotFound == "Movie not found."
MsgWelcomeBack == "Welcome back"
MsgInvalidCredentials == "Invalid username/email or password."
MsgConflict == "Account with this username or email already exists."
MsgAccountCreated == "Account created successfully."
MsgRegistrationError == "An error occurred during registration"
MsgLoggedOut == "You have been logged out."
MsgRemoved == "removed from your watchlist."
MsgAdded == "added to your watchlist!"
MsgWatchlistError == "An error occurred while updating the watchlist."
MsgReviewRequired == "Rating and review text are required."
MsgRatingRange == "Rating must be between 1 and 5."
MsgReviewUpdated == "Your review has been updated!"
MsgReviewPosted == "Your review has been posted!"
MsgInvalidRating == "Invalid rating submitted."
MsgReviewError == "An error occurred while posting the review: You may have already reviewed this movie."
MsgAddDenied == "Access denied. Only the admin can add movies."
MsgEditDenied == "Access denied. Only the admin can edit movies."
MsgMovieAdded == "added successfully!"
MsgMovieUpdated == "updated successfully!"
MsgInvalidYear == "Invalid input for Year. Please enter a valid number."
MsgAddError == "An error occurred while adding the movie"
MsgEditError == "An error occurred while updating the movie"

-----------------------------------------------------------------------------
(* Responses: the operation, the client, the user the request ran as, the
   movie id of the URL, the flashed messages in order, the redirect target
   or rendered template, and the rows handed to the template. *)

ResponseAs(op, c, user_id, movie_id, flashes, target, body) ==
    [op |-> op, client |-> c, user |-> user_id, movie_id |-> movie_id,
     flashes |-> flashes, target |-> target, body |-> body]

Response(op, c, movie_id, flashes, target, body) ==
    ResponseAs(op, c, CurrentUser(c), movie_id, flashes, target, body)

NoResponse ==
    [op |-> "none", client |-> "none", user |-> Anonymous, movie_id |-> 0,
     flashes |-> <<>>, target |-> "none", body |-> <<>>]

\* login_manager.unauthorized(): the answer of @login_required to a request
\* without a logged-in session
Unauthorized(op, c, movie_id) ==
    Response(op, c, movie_id, <<MsgLoginRequired>>, "login", <<>>)

Idle == [pc |-> "idle"]

\* avg_rating of movie_detail when the average is None or zero: the string 'N/A'
NotRated == [kind |-> "N/A", tenths |-> 0]

\* No detail page has been rendered yet
NoDetail ==
    [movie_id |-> 0, avg_rating |-> NotRated, reviews |-> {}, is_on_watchlist |-> FALSE]

Init ==
    /\ users = SeedUsers
    /\ movies = SeedMovies
    /\ watchlist = {}
    /\ reviews = SeedReviews
    /\ session = [c \in Clients |-> Anonymous]
    /\ resp = NoResponse
    /\ txn = [w \in Workers |-> Idle]
    /\ crawl = [page |-> 1, items |-> <<>>, done |-> FALSE]
    /\ detail = NoDetail

-----------------------------------------------------------------------------
(* Auth: login, register, logout *)

\* A handler that never takes its caller for logged in
AlreadyLoggedInIgnored(c) == FALSE

\* "if current_user.is_authenticated: return redirect(url_for('index'))" of
\* login and register
AlreadyLoggedIn(c) == is_authenticated(c)

\* The rows of the query of login: username OR email equals the identity
LoginMatches(identity) ==
    {u \in users : u.username = identity \/ u.email = identity}

\* The credential test of login on the row .first() returned
LoginAccepts(u, password) == check_password_hash(u.password_hash, password)

\* login. The query has no ORDER BY, so .first() returns any of the matching rows.
login(c, method, identity, password) ==
    /\ UNCHANGED <<users, movies, watchlist, reviews, txn, crawl, detail>>
    /\ IF AlreadyLoggedIn(c)
       THEN /\ resp' = Response("login", c, 0, <<>>, "index", <<>>)
            /\ UNCHANGED session
       ELSE IF method = "GET"
       THEN /\ resp' = Response("login", c, 0, <<>>, "login.html", <<>>)
            /\ UNCHANGED session
       ELSE IF LoginMatches(identity) = {}
       THEN /\ resp' = Response("login", c, 0, <<MsgInvalidCredentials>>, "login.html", <<>>)
            /\ UNCHANGED session
       ELSE \E u \in LoginMatches(identity) :
                IF LoginAccepts(u, password)
                THEN /\ session' = [session EXCEPT ![c] = u.id]
                     /\ resp' = Response("login", c, 0, <<MsgWelcomeBack>>, "index", <<>>)
                ELSE /\ resp' = Response("login", c, 0, <<MsgInvalidCredentials>>, "login.html", <<>>)
                     /\ UNCHANGED session

\* A duplicate test that looks at the username only
RegisterConflictUsernameOnly(username, email) ==
    \E u \in users : u.username = username

\* The duplicate test of register: a row with this username or this email
RegisterConflict(username, email) ==
    \E u \in users : u.username = username \/ u.email = email

\* register. fail: the commit raises (the store is unavailable).
register(c, method, username, email, password, fail) ==
    /\ UNCHANGED <<movies, watchlist, reviews, txn, crawl, detail>>
    /\ IF AlreadyLoggedIn(c)
       THEN /\ resp' = Response("register", c, 0, <<>>, "index", <<>>)
            /\ UNCHANGED <<users, session>>
       ELSE IF method = "GET"
       THEN /\ resp' = Response("register", c, 0, <<>>, "register.html", <<>>)
            /\ UNCHANGED <<users, session>>
       ELSE IF RegisterConflict(username, email)
       THEN /\ resp' = Response("register", c, 0, <<MsgConflict>>, "register", <<>>)
            /\ UNCHANGED <<users, session>>
       ELSE IF fail
       THEN /\ resp' = Response("register", c, 0, <<MsgRegistrationError>>, "register.html", <<>>)
            /\ UNCHANGED <<users, session>>
       ELSE /\ Cardinality(users) < MaxUsers
            /\ users' = users \cup
                 { [id |-> NextId(users), username |-> username, email |-> email,
                    password_hash |-> generate_password_hash(password)] }
            /\ session' = [session EXCEPT ![c] = NextId(users)]
            /\ resp' = Response("register", c, 0, <<MsgAccountCreated>>, "index", <<>>)

\* logout
logout(c) ==
    /\ UNCHANGED <<users, movies, watchlist, reviews, txn, crawl, detail>>
    /\ IF ~login_required(c)
       THEN /\ resp' = Unauthorized("logout", c, 0)
            /\ UNCHANGED session
       ELSE /\ session' = [session EXCEPT ![c] = Anonymous]
            /\ resp' = Response("logout", c, 0, <<MsgLoggedOut>>, "index", <<>>)

-----------------------------------------------------------------------------
(* Watchlist *)

\* A read that looks the entry up by the movie alone
ToggleStageAnyUser(user_id, movie_id) ==
    LET found == {r \in watchlist : r.movie_id = movie_id}
    IN  IF found # {}
        THEN [kind |-> "delete", row |-> CHOOSE r \in found : TRUE,
              user_id |-> user_id, movie_id |-> movie_id]
        ELSE [kind |-> "insert", row |-> [id |-> 0, user_id |-> user_id, movie_id |-> movie_id],
              user_id |-> user_id, movie_id |-> movie_id]

\* The change toggle_watchlist stages after its read: delete the row it
\* found, or insert a row for the pair.
ToggleStage(user_id, movie_id) ==
    LET found == {r \in watchlist : r.user_id = user_id /\ r.movie_id = movie_id}
    IN  IF found # {}
        THEN [kind |-> "delete", row |-> CHOOSE r \in found : TRUE,
              user_id |-> user_id, movie_id |-> movie_id]
        ELSE [kind |-> "insert", row |-> [id |-> 0, user_id |-> user_id, movie_id |-> movie_id],
              user_id |-> user_id, movie_id |-> movie_id]

\* The flash toggle_watchlist issues right after staging, before the commit
ToggleFlash(change) == IF change.kind = "delete" THEN MsgRemoved ELSE MsgAdded

\* A store without the constraint _user_movie_uc
WatchlistUniqueDropped(table, change) == TRUE

\* _user_movie_uc: the INSERT is rejected when a row of the pair is there
WatchlistUnique(table, change) ==
    <<change.user_id, change.movie_id>> \notin Pairs(table)

\* A flush whose DELETE is keyed by the movie alone
WatchlistFlushDeleteByMovie(table, change) ==
    IF change.kind = "insert"
    THEN IF WatchlistUnique(table, change)
         THEN [ok |-> TRUE,
               table |-> table \cup {[change.row EXCEPT !.id = NextId(table)]}]
         ELSE [ok |-> FALSE, table |-> table]
    ELSE [ok |-> TRUE, table |-> {r \in table : r.movie_id # change.movie_id}]

\* The flush of db.session.commit(): the staged statement runs inside the
\* transaction, on the table as it is at commit time. The INSERT raises when
\* it breaks the uniqueness constraint; a DELETE of a row another request has
\* deleted matches no row and is not an error.
WatchlistFlush(table, change) ==
    IF change.kind = "insert"
    THEN IF WatchlistUnique(table, change)
         THEN [ok |-> TRUE,
               table |-> table \cup {[change.row EXCEPT !.id = NextId(table)]}]
         ELSE [ok |-> FALSE, table |-> table]
    ELSE [ok |-> TRUE, table |-> table \ {change.row}]

\* db.session.commit(): the flush, then the COMMIT, which raises when the
\* store fails (fail). table is what the transaction holds when it ends.
WatchlistCommit(table, change, fail) ==
    IF fail THEN [ok |-> FALSE, table |-> WatchlistFlush(table, change).table]
    ELSE WatchlistFlush(table, change)

\* An except clause that keeps what the failed transaction held
ToggleNoRollback(table, result) == result.table

\* What is in the table after try/except of toggle_watchlist: what was
\* committed, or, after db.session.rollback(), what was there before.
ToggleRollback(table, result) == IF result.ok THEN result.table ELSE table

\* The flashes of a toggle whose commit returned result
ToggleFlashes(change, result) ==
    <<ToggleFlash(change)>> \o (IF result.ok THEN <<>> ELSE <<MsgWatchlistError>>)

\* toggle_watchlist, run without another request in between
toggle_watchlist(c, movie_id, fail) ==
    /\ UNCHANGED <<users, movies, reviews, session, txn, crawl, detail>>
    /\ IF ~login_required(c)
       THEN /\ resp' = Unauthorized("toggle_watchlist", c, movie_id)
            /\ UNCHANGED watchlist
       ELSE IF MovieNotFound(movie_id)
       THEN /\ resp' = Response("toggle_watchlist", c, movie_id, <<MsgMovieNotFound>>, "index", <<>>)
            /\ UNCHANGED watchlist
       ELSE LET change == ToggleStage(CurrentUser(c), movie_id)
                result == WatchlistCommit(watchlist, change, fail)
            IN  /\ change.kind = "insert" /\ ~fail => NextId(watchlist) <= MaxRowId
                /\ watchlist' = ToggleRollback(watchlist, result)
                /\ resp' = Response("toggle_watchlist", c, movie_id,
                                    ToggleFlashes(change, result), "referrer", <<>>)

\* The ids of the movies of the rows of user_id, newest row id first
RECURSIVE WatchlistOrder(_)
WatchlistOrder(rows) ==
    IF rows = {} THEN <<>>
    ELSE LET top == CHOOSE r \in rows : \A q \in rows : q.id <= r.id
         IN  <<top>> \o WatchlistOrder(rows \ {top})

\* watchlist: the movies of the caller's rows ordered by row id descending,
\* rows whose movie is gone left out
WatchlistMovies(user_id) ==
    LET rows == WatchlistOrder({r \in watchlist : r.user_id = user_id})
        kept == SelectSeq(rows, LAMBDA r : GetMovie(r.movie_id) # {})
    IN  [i \in 1..Len(kept) |-> kept[i].movie_id]

watchlist_view(c) ==
    /\ UNCHANGED <<users, movies, watchlist, reviews, session, txn, crawl, detail>>
    /\ IF ~login_required(c)
       THEN resp' = Unauthorized("watchlist", c, 0)
       ELSE resp' = Response("watchlist", c, 0, <<>>, "watchlist.html",
                             WatchlistMovies(CurrentUser(c)))

-----------------------------------------------------------------------------
(* Reviews *)

\* A required-fields test that looks at the rating only
ReviewRatingMissing(rating, text) == ~Truthy(rating)

\* "if not rating or not text" of submit_review
ReviewFieldsMissing(rating, text) == ~Truthy(rating) \/ ~TruthyText(text)

\* A range test without its lower bound
RatingAtMostFive(n) == n <= 5

\* "1 <= rating <= 5"
RatingInRange(n) == 1 <= n /\ n <= 5

\* submit_review without the look-up of the existing review: always an INSERT
ReviewStageInsertOnly(user_id, movie_id, n, text) ==
    [kind |-> "insert",
     row |-> [id |-> 0, user_id |-> user_id, movie_id |-> movie_id,
              rating |-> n, text |-> text],
     user_id |-> user_id, movie_id |-> movie_id]

\* The change submit_review stages after its read: overwrite the rating and
\* the text of the row it found, or insert a row for the pair.
ReviewStage(user_id, movie_id, n, text) ==
    LET found == {r \in reviews : r.user_id = user_id /\ r.movie_id = movie_id}
    IN  IF found # {}
        THEN [kind |-> "update",
              row |-> [(CHOOSE r \in found : TRUE) EXCEPT !.rating = n, !.text = text],
              user_id |-> user_id, movie_id |-> movie_id]
        ELSE [kind |-> "insert",
              row |-> [id |-> 0, user_id |-> user_id, movie_id |-> movie_id,
                       rating |-> n, text |-> text],
              user_id |-> user_id, movie_id |-> movie_id]

\* The flash submit_review issues right after staging, before the commit
ReviewFlash(change) == IF change.kind = "update" THEN MsgReviewUpdated ELSE MsgReviewPosted

\* _user_movie_review_uc: the INSERT is rejected when a row of the pair is there
ReviewUnique(table, change) ==
    <<change.user_id, change.movie_id>> \notin Pairs(table)

\* The flush of db.session.commit() for a staged review change, on the table
\* as it is at commit time: the UPDATE rewrites the row of that id.
ReviewFlush(table, change) ==
    IF change.kind = "insert"
    THEN IF ReviewUnique(table, change)
         THEN [ok |-> TRUE,
               table |-> table \cup {[change.row EXCEPT !.id = NextId(table)]}]
         ELSE [ok |-> FALSE, table |-> table]
    ELSE [ok |-> TRUE,
          table |-> {r \in table : r.id # change.row.id} \cup {change.row}]

\* db.session.commit(): the flush, then the COMMIT, which raises when the
\* store fails (fail).
ReviewCommit(table, change, fail) ==
    IF fail THEN [ok |-> FALSE, table |-> ReviewFlush(table, change).table]
    ELSE ReviewFlush(table, change)

\* What is in the table after "except Exception" of submit_review
ReviewRollback(table, result) == IF result.ok THEN result.table ELSE table

ReviewFlashes(change, result) ==
    <<ReviewFlash(change)>> \o (IF result.ok THEN <<>> ELSE <<MsgReviewError>>)

\* submit_review, run without another request in between
submit_review(c, movie_id, rating, text, fail) ==
    /\ UNCHANGED <<users, movies, watchlist, session, txn, crawl, detail>>
    /\ IF ~login_required(c)
       THEN /\ resp' = Unauthorized("submit_review", c, movie_id)
            /\ UNCHANGED reviews
       ELSE IF MovieNotFound(movie_id)
       THEN /\ resp' = Response("submit_review", c, movie_id, <<MsgMovieNotFound>>, "index", <<>>)
            /\ UNCHANGED reviews
       ELSE IF ReviewFieldsMissing(rating, text)
       THEN /\ resp' = Response("submit_review", c, movie_id, <<MsgReviewRequired>>, "movie_detail", <<>>)
            /\ UNCHANGED reviews
       ELSE IF ~ParseInt(rating.value).ok
       THEN /\ resp' = Response("submit_review", c, movie_id, <<MsgInvalidRating>>, "movie_detail", <<>>)
            /\ UNCHANGED reviews
       ELSE IF ~RatingInRange(ParseInt(rating.value).value)
       THEN /\ resp' = Response("submit_review", c, movie_id, <<MsgRatingRange>>, "movie_detail", <<>>)
            /\ UNCHANGED reviews
       ELSE LET change == ReviewStage(CurrentUser(c), movie_id,
                                      ParseInt(rating.value).value, text.value)
                result == ReviewCommit(reviews, change, fail)
            IN  /\ reviews' = ReviewRollback(reviews, result)
                /\ resp' = Response("submit_review", c, movie_id,
                                    ReviewFlashes(change, result), "movie_detail", <<>>)

-----------------------------------------------------------------------------
(* Movie detail *)

\* A query of the reviews that forgets its filter
MovieReviewsUnfiltered(movie_id) == reviews

\* "query(Review).filter_by(movie_id=movie_id)"
MovieReviews(movie_id) == {r \in reviews : r.movie_id = movie_id}

RECURSIVE SumRatings(_)
SumRatings(rows) ==
    IF rows = {} THEN 0
    ELSE LET r == CHOOSE x \in rows : TRUE
         IN  r.rating + SumRatings(rows \ {r})

\* "func.avg(Review.rating)...scalar()": NULL over no rows, else the sum of
\* the ratings over their number, kept as a fraction.
AvgQuery(rows) ==
    IF rows = {} THEN [null |-> TRUE, num |-> 0, den |-> 1]
    ELSE [null |-> FALSE, num |-> SumRatings(rows), den |-> Cardinality(rows)]

\* Python's round(x, 1) of num/den, in tenths: the nearest tenth, a tie going
\* to the even one (num/den ends in .25 or .75 when it ties, which a float
\* holds exactly).
Round1(num, den) ==
    LET q == (10 * num) \div den
        r == (10 * num) % den
    IN  IF 2 * r < den THEN q
        ELSE IF 2 * r > den THEN q + 1
        ELSE IF q % 2 = 0 THEN q ELSE q + 1

\* "round(avg_rating, 1) if avg_rating else 'N/A'": None and 0.0 are false
AvgRating(avg) ==
    IF ~avg.null /\ avg.num # 0
    THEN [kind |-> "float", tenths |-> Round1(avg.num, avg.den)]
    ELSE NotRated

\* "is_on_watchlist": only looked up for a logged-in caller
IsOnWatchlist(c, movie_id) ==
    /\ is_authenticated(c)
    /\ \E r \in watchlist : r.user_id = CurrentUser(c) /\ r.movie_id = movie_id

\* movie_detail (no @login_required)
movie_detail(c, movie_id) ==
    /\ UNCHANGED <<users, movies, watchlist, reviews, session, txn, crawl>>
    /\ IF MovieNotFound(movie_id)
       THEN /\ resp' = Response("movie_detail", c, movie_id, <<MsgMovieNotFound>>, "index", <<>>)
            /\ UNCHANGED detail
       ELSE /\ resp' = Response("movie_detail", c, movie_id, <<>>, "movie_detail.html", <<>>)
            /\ detail' = [movie_id |-> movie_id,
                          avg_rating |-> AvgRating(AvgQuery(MovieReviews(movie_id))),
                          reviews |-> MovieReviews(movie_id),
                          is_on_watchlist |-> IsOnWatchlist(c, movie_id)]

-----------------------------------------------------------------------------
(* Admin: add_movie, edit_movie. A form is a record of the six fields; year
   is a sequence of characters, parsed by int(). *)

\* A handler without the username test
IsAdminAnyone(c) == TRUE

\* "current_user.username != 'admin'"
IsAdmin(c) == current_username(c) = AdminName

\* The Movie add_movie builds from a form whose year parsed to y
NewMovie(form, y) ==
    [id |-> NextId(movies), title |-> form.title, genre |-> form.genre,
     poster |-> form.poster, year |-> y, duration |-> form.duration,
     synopsis |-> form.synopsis]

add_movie(c, method, form, fail) ==
    /\ UNCHANGED <<users, watchlist, reviews, session, txn, crawl, detail>>
    /\ IF ~login_required(c)
       THEN /\ resp' = Unauthorized("add_movie", c, 0)
            /\ UNCHANGED movies
       ELSE IF ~IsAdmin(c)
       THEN /\ resp' = Response("add_movie", c, 0, <<MsgAddDenied>>, "index", <<>>)
            /\ UNCHANGED movies
       ELSE IF method = "GET"
       THEN /\ resp' = Response("add_movie", c, 0, <<>>, "add_movie.html", <<>>)
            /\ UNCHANGED movies
       ELSE IF ~ParseInt(form.year).ok
       THEN /\ resp' = Response("add_movie", c, 0, <<MsgInvalidYear>>, "add_movie.html", <<>>)
            /\ UNCHANGED movies
       ELSE IF fail
       THEN /\ resp' = Response("add_movie", c, 0, <<MsgAddError>>, "add_movie.html", <<>>)
            /\ UNCHANGED movies
       ELSE /\ Cardinality(movies) < MaxMovies
            /\ movies' = movies \cup {NewMovie(form, ParseInt(form.year).value)}
            /\ resp' = Response("add_movie", c, NextId(movies), <<MsgMovieAdded>>, "movie_detail", <<>>)

\* The attributes edit_movie has assigned to the loaded Movie when it stops:
\* title, genre and poster before int() of the year, the rest after it.
EditAssign(movie, form) ==
    LET early == [movie EXCEPT !.title = form.title, !.genre = form.genre,
                               !.poster = form.poster]
    IN  IF ~ParseInt(form.year).ok
        THEN [ok |-> FALSE, movie |-> early]
        ELSE [ok |-> TRUE,
              movie |-> [early EXCEPT !.year = ParseInt(form.year).value,
                                      !.duration = form.duration,
                                      !.synopsis = form.synopsis]]

\* An except clause that leaves the assigned attributes in place
EditOutcomeNoRollback(movie, assigned, fail) == assigned.movie

\* The row of the movie after edit_movie: the commit writes the assigned
\* attributes, db.session.rollback() discards them.
EditOutcome(movie, assigned, fail) ==
    IF assigned.ok /\ ~fail THEN assigned.movie ELSE movie

edit_movie(c, movie_id, method, form, fail) ==
    /\ UNCHANGED <<users, watchlist, reviews, session, txn, crawl, detail>>
    /\ IF ~login_required(c)
       THEN /\ resp' = Unauthorized("edit_movie", c, movie_id)
            /\ UNCHANGED movies
       ELSE IF ~IsAdmin(c)
       THEN /\ resp' = Response("edit_movie", c, movie_id, <<MsgEditDenied>>, "movie_detail", <<>>)
            /\ UNCHANGED movies
       ELSE IF GetMovie(movie_id) = {}
       THEN /\ resp' = Response("edit_movie", c, movie_id, <<MsgMovieNotFound>>, "index", <<>>)
            /\ UNCHANGED movies
       ELSE IF method = "GET"
       THEN /\ resp' = Response("edit_movie", c, movie_id, <<>>, "add_movie.html", <<>>)
            /\ UNCHANGED movies
       ELSE LET movie == CHOOSE m \in movies : m.id = movie_id
                assigned == EditAssign(movie, form)
            IN  /\ movies' = (movies \ {movie}) \cup {EditOutcome(movie, assigned, fail)}
                /\ resp' = Response("edit_movie", c, movie_id,
                                    IF ~assigned.ok THEN <<MsgInvalidYear>>
                                    ELSE IF fail THEN <<MsgEditError>>
                                    ELSE <<MsgMovieUpdated>>,
                                    IF assigned.ok /\ ~fail THEN "movie_detail" ELSE "add_movie.html",
                                    <<>>)

-----------------------------------------------------------------------------
(* Catalogue: api_movies. The title filter q (ILIKE) is not modelled: every
   request here carries q = "". *)

\* "if genre: query.filter(Movie.genre == genre)"
Filtered(genre) == IF genre = "" THEN movies ELSE {m \in movies : m.genre = genre}

\* The orders ORDER BY year DESC allows for the rows S, as sequences of ids:
\* rows of the same year come in an order the store chooses per query.
RECURSIVE Orderings(_)
Orderings(S) ==
    IF S = {} THEN {<<>>}
    ELSE LET top == {m \in S : \A n \in S : n.year <= m.year}
         IN  UNION {{<<m.id>> \o rest : rest \in Orderings(S \ {m})} : m \in top}

Min(a, b) == IF a <= b THEN a ELSE b

\* "(page - 1) * per_page"
Offset(page) == (page - 1) * per_page

\* ".offset(...).limit(per_page)" of an ordered result
PageOf(ordered, page) ==
    SubSeq(ordered, Offset(page) + 1, Min(Offset(page) + per_page, Len(ordered)))

ApiMoviesResponse(c, genre, page, ordered) ==
    Response("api_movies", c, 0, <<>>, "moviecard.html", PageOf(ordered, page))

api_movies(c, genre, page) ==
    /\ UNCHANGED <<users, movies, watchlist, reviews, session, txn, crawl, detail>>
    /\ \E ordered \in Orderings(Filtered(genre)) :
           resp' = ApiMoviesResponse(c, genre, page, ordered)

\* The infinite-scroll client: it asks for the next page without filters,
\* appends what it gets and stops at the first empty page.
scroll(c) ==
    /\ ~crawl.done
    /\ UNCHANGED <<users, movies, watchlist, reviews, session, txn, detail>>
    /\ \E ordered \in Orderings(Filtered("")) :
           /\ resp' = ApiMoviesResponse(c, "", crawl.page, ordered)
           /\ crawl' = [page |-> crawl.page + 1,
                        items |-> crawl.items \o PageOf(ordered, crawl.page),
                        done |-> PageOf(ordered, crawl.page) = <<>>]

NoCrawl == crawl = [page |-> 1, items |-> <<>>, done |-> FALSE]

-----------------------------------------------------------------------------
(* toggle_watchlist as two steps of a worker, for requests that overlap:
   the guards, the read and the staging, then the commit. *)

toggle_begin(w, c, movie_id) ==
    /\ txn[w].pc = "idle"
    /\ UNCHANGED <<users, movies, watchlist, reviews, session, crawl, detail>>
    /\ IF ~login_required(c)
       THEN /\ resp' = Unauthorized("toggle_watchlist", c, movie_id)
            /\ UNCHANGED txn
       ELSE IF MovieNotFound(movie_id)
       THEN /\ resp' = Response("toggle_watchlist", c, movie_id, <<MsgMovieNotFound>>, "index", <<>>)
            /\ UNCHANGED txn
       ELSE /\ txn' = [txn EXCEPT ![w] =
                         [pc |-> "staged", op |-> "toggle_watchlist", client |-> c,
                          user |-> CurrentUser(c),
                          change |-> ToggleStage(CurrentUser(c), movie_id)]]
            /\ UNCHANGED resp

toggle_commit(w, fail) ==
    /\ txn[w].pc = "staged"
    /\ txn[w].op = "toggle_watchlist"
    /\ UNCHANGED <<users, movies, reviews, session, crawl, detail>>
    /\ LET change == txn[w].change
           result == WatchlistCommit(watchlist, change, fail)
       IN  /\ change.kind = "insert" /\ result.ok => NextId(watchlist) <= MaxRowId
           /\ watchlist' = ToggleRollback(watchlist, result)
           /\ resp' = ResponseAs("toggle_watchlist", txn[w].client, txn[w].user,
                                 change.movie_id, ToggleFlashes(change, result),
                                 "referrer", <<>>)
           /\ txn' = [txn EXCEPT ![w] = Idle]

-----------------------------------------------------------------------------
(* submit_review as two steps of a worker, for requests that overlap: the
   guards, the validation, the read and the staging, then the commit. *)

review_begin(w, c, movie_id, rating, text) ==
    /\ txn[w].pc = "idle"
    /\ UNCHANGED <<users, movies, watchlist, reviews, session, crawl, detail>>
    /\ IF ~login_required(c)
       THEN /\ resp' = Unauthorized("submit_review", c, movie_id)
            /\ UNCHANGED txn
       ELSE IF MovieNotFound(movie_id)
       THEN /\ resp' = Response("submit_review", c, movie_id, <<MsgMovieNotFound>>, "index", <<>>)
            /\ UNCHANGED txn
       ELSE IF ReviewFieldsMissing(rating, text)
       THEN /\ resp' = Response("submit_review", c, movie_id, <<MsgReviewRequired>>, "movie_detail", <<>>)
            /\ UNCHANGED txn
       ELSE IF ~ParseInt(rating.value).ok
       THEN /\ resp' = Response("submit_review", c, movie_id, <<MsgInvalidRating>>, "movie_detail", <<>>)
            /\ UNCHANGED txn
       ELSE IF ~RatingInRange(ParseInt(rating.value).value)
       THEN /\ resp' = Response("submit_review", c, movie_id, <<MsgRatingRange>>, "movie_detail", <<>>)
            /\ UNCHANGED txn
       ELSE /\ txn' = [txn EXCEPT ![w] =
                         [pc |-> "staged", op |-> "submit_review", client |-> c,
                          user |-> CurrentUser(c),
                          change |-> ReviewStage(CurrentUser(c), movie_id,
                                                 ParseInt(rating.value).value, text.value)]]
            /\ UNCHANGED resp

review_commit(w, fail) ==
    /\ txn[w].pc = "staged"
    /\ txn[w].op = "submit_review"
    /\ UNCHANGED <<users, movies, watchlist, session, crawl, detail>>
    /\ LET change == txn[w].change
           result == ReviewCommit(reviews, change, fail)
       IN  /\ reviews' = ReviewRollback(reviews, result)
           /\ resp' = ResponseAs("submit_review", txn[w].client, txn[w].user,
                                 change.movie_id, ReviewFlashes(change, result),
                                 "movie_detail", <<>>)
           /\ txn' = [txn EXCEPT ![w] = Idle]

-----------------------------------------------------------------------------
(* Inputs of the requests *)

Methods == {"GET", "POST"}

Chars(n) ==
    CASE n = "5" -> <<"5">>
      [] n = "1" -> <<"1">>
      [] n = "0" -> <<"0">>
      [] n = "6" -> <<"6">>
      [] n = " 3 " -> <<" ", "3", " ">>
      [] n = "+4" -> <<"+", "4">>
      [] n = "-1" -> <<"-", "1">>
      [] n = "4.5" -> <<"4", ".", "5">>
      [] n = "five" -> <<"f", "i", "v", "e">>
      [] n = "1_0" -> <<"1", "_", "0">>
      [] n = "2001" -> <<"2", "0", "0", "1">>
      [] n = "1999" -> <<"1", "9", "9", "9">>
      [] n = "19x9" -> <<"1", "9", "x", "9">>
      [] n = "" -> <<>>

Form(title, year) ==
    [title |-> title, genre |-> "Drama", poster |-> "form-poster", year |-> Chars(year),
     duration |-> "1h 30m", synopsis |-> "form-synopsis"]

-----------------------------------------------------------------------------
(* Specifications. Each starts from the seeded store and composes the
   handlers of one service with the requests that log its callers in. *)

\* A second account and the sessions of the two accounts
Accounts(c) ==
    \/ register(c, "POST", "bob", "bob@flix.com", "pw-bob", FALSE)
    \/ \E identity \in {AdminName, "bob"}, password \in {"password123", "pw-bob"} :
           login(c, "POST", identity, password)
    \/ logout(c)

\* Auth service: usernames and emails overlap, so that one user's username
\* can be another user's email.
Usernames == {AdminName, "bob", "admin@flix.com", "bob@flix.com"}
Emails == {"admin@flix.com", "bob@flix.com", "carol@flix.com"}
Passwords == {"password123", "pw-bob"}
NewPasswords == {"pw-bob"}

\* Registration forms a browser would not send: a field left empty, an
\* email without "@"
MalformedEmails == {"carol.flix.com"}
UncheckedForms ==
    { [username |-> "", email |-> "carol@flix.com", password |-> "pw-bob"],
      [username |-> "carol", email |-> "", password |-> "pw-bob"],
      [username |-> "carol", email |-> "carol@flix.com", password |-> ""],
      [username |-> "carol", email |-> "carol.flix.com", password |-> "pw-bob"] }

NextAuth ==
    \E c \in Clients :
        \/ login(c, "GET", "", "")
        \/ \E identity \in Usernames \cup Emails, password \in Passwords :
               login(c, "POST", identity, password)
        \/ register(c, "GET", "", "", "", FALSE)
        \/ \E username \in Usernames, email \in Emails,
              password \in NewPasswords, fail \in BOOLEAN :
               register(c, "POST", username, email, password, fail)
        \/ \E form \in UncheckedForms :
               register(c, "POST", form.username, form.email, form.password, FALSE)
        \/ logout(c)

SpecAuth == Init /\ [][NextAuth]_vars

\* Watchlist service, one request at a time
WatchMovieIds == {1, 2, 99}

NextWatch ==
    \E c \in Clients :
        \/ Accounts(c)
        \/ \E movie_id \in WatchMovieIds, fail \in BOOLEAN : toggle_watchlist(c, movie_id, fail)
        \/ watchlist_view(c)

SpecWatch == Init /\ [][NextWatch]_vars

\* Watchlist service, requests overlapping
NextWatchConc ==
    \/ Accounts("c1")
    \/ \E w \in Workers, movie_id \in {2, 99} : toggle_begin(w, "c1", movie_id)
    \/ \E w \in Workers, fail \in BOOLEAN : toggle_commit(w, fail)

SpecWatchConc == Init /\ [][NextWatchConc]_vars

\* Review service
ReviewMovieIds == {2, 99}
Ratings == {Absent} \cup
    {Field(Chars(n)) : n \in {"", "5", "0", "6", " 3 ", "-1", "4.5", "five", "1_0"}}
Texts == {AbsentText, Field(""), Field("great"), Field("dull")}

NextReview ==
    \E c \in {"c1"} :
        \/ Accounts(c)
        \/ \E movie_id \in ReviewMovieIds, rating \in Ratings, text \in Texts, fail \in BOOLEAN :
               submit_review(c, movie_id, rating, text, fail)

SpecReview == Init /\ [][NextReview]_vars

\* Review service, requests overlapping: one user's browser sends a second
\* submission before the first has committed.
ConcMovieIds == {1}
ConcRatings == {Field(Chars("5")), Field(Chars(" 3 "))}

NextReviewConc ==
    \/ Accounts("c1")
    \/ \E w \in Workers, movie_id \in ConcMovieIds, rating \in ConcRatings :
           review_begin(w, "c1", movie_id, rating, Field("great"))
    \/ \E w \in Workers, fail \in BOOLEAN : review_commit(w, fail)

SpecReviewConc == Init /\ [][NextReviewConc]_vars

\* The table has had at most one movie added to the seed
FewMovies == Cardinality(movies) <= Cardinality(SeedMovies)

\* Admin mutation service
Forms == {Form(title, year) : title \in {"Heat", "Alien"}, year \in {"1999", "19x9", " 3 "}}

NextAdmin ==
    \E c \in Clients :
        \/ Accounts(c)
        \/ FewMovies /\ \E method \in Methods, form \in Forms, fail \in BOOLEAN :
               add_movie(c, method, form, fail)
        \/ \E movie_id \in {2, 99}, method \in Methods, form \in Forms, fail \in BOOLEAN :
               edit_movie(c, movie_id, method, form, fail)

SpecAdmin == Init /\ [][NextAdmin]_vars

\* Catalogue query service: the admin fills the table, then a client scrolls
\* through one snapshot of it.
NextSearch ==
    \/ NoCrawl /\ login("c1", "POST", AdminName, "password123")
    \/ NoCrawl /\ \E year \in {"2001", "1999"} : add_movie("c1", "POST", Form("Heat", year), FALSE)
    \/ scroll("c2")
    \/ \E genre \in {"", "Sci-Fi"} : api_movies("c2", genre, 1)

SpecSearch == Init /\ [][NextSearch]_vars

\* An existing and a missing movie, an accepted and a refused rating
SomeMovieIds == {2, 99}
SomeRatings == {Field(Chars("5")), Field(Chars("0"))}

\* Movie detail service: one browser looks movies up, one of them without
\* reviews and one that does not exist, while its users review and toggle.
DetailMovieIds == {1, 2, 99}
DetailRatings == {Field(Chars(n)) : n \in {"5", "+4", " 3 "}}

NextDetail ==
    \/ Accounts("c1")
    \/ \E movie_id \in DetailMovieIds : movie_detail("c1", movie_id)
    \/ \E movie_id \in SomeMovieIds : toggle_watchlist("c1", movie_id, FALSE)
    \/ \E movie_id \in SomeMovieIds, rating \in DetailRatings :
           submit_review("c1", movie_id, rating, Field("great"), FALSE)

SpecDetail == Init /\ [][NextDetail]_vars

\* All services together, on few inputs
Next ==
    \E c \in Clients :
        \/ Accounts(c)
        \/ \E movie_id \in SomeMovieIds : toggle_watchlist(c, movie_id, FALSE)
        \/ watchlist_view(c)
        \/ \E movie_id \in SomeMovieIds, rating \in SomeRatings :
               submit_review(c, movie_id, rating, Field("great"), FALSE)
        \/ FewMovies /\ \E year \in {"1999", "19x9"} :
               add_movie(c, "POST", Form("Heat", year), FALSE)
        \/ \E movie_id \in {2, 99}, year \in {"1999", "19x9"} :
               edit_movie(c, movie_id, "POST", Form("Heat", year), FALSE)

Spec == Init /\ [][Next]_vars

-----------------------------------------------------------------------------
(* Properties *)

\* C1: in every reachable state, whatever the interleaving of the
\* toggle_watchlist requests (two workers may both read "no entry" for the
\* same pair before either commits), the watchlist table holds at most one
\* row for each (user, movie) pair.
C1_OneEntryPerPair ==
    \A r1, r2 \in watchlist :
        (r1.user_id = r2.user_id /\ r1.movie_id = r2.movie_id) => r1 = r2

\* A worker still holds a staged INSERT for a pair that another request has
\* inserted since the worker's read.
C1_Witness ==
    \E w \in Workers :
        /\ txn[w].pc = "staged"
        /\ txn[w].change.kind = "insert"
        /\ <<txn[w].change.user_id, txn[w].change.movie_id>> \in Pairs(watchlist)

\* What the properties take a form to mean, stated apart from the handlers:
\* the rating a rating field denotes (0: none in 1..5) and whether a review
\* form is valid (a rating in 1..5 and a non-empty text).
DenotedRating(rating) ==
    CASE rating = Field(Chars("5")) -> 5
      [] rating = Field(Chars(" 3 ")) -> 3
      [] OTHER -> 0

ValidReview(rating, text) ==
    /\ DenotedRating(rating) \in 1..5
    /\ text \in {Field("great"), Field("dull")}

\* The last completed request was a submission of user_id for movie_id that
\* was stored
Submitted(r, user_id, movie_id) ==
    /\ r.op = "submit_review"
    /\ r.user = user_id
    /\ r.movie_id = movie_id
    /\ r.flashes \in {<<MsgReviewPosted>>, <<MsgReviewUpdated>>}

ReviewsOf(table, user_id, movie_id) ==
    {r \in table : r.user_id = user_id /\ r.movie_id = movie_id}

Toggled(r, user_id, movie_id) ==
    /\ r.op = "toggle_watchlist"
    /\ r.user = user_id
    /\ r.movie_id = movie_id
    /\ r.flashes \in {<<MsgAdded>>, <<MsgRemoved>>}

OtherEntries(table, user_id, movie_id) ==
    {r \in table : ~(r.user_id = user_id /\ r.movie_id = movie_id)}

UserIds == 1..(MaxUsers + 1)

\* C3: a toggle of an authenticated user for an existing movie whose commit
\* does not fail reports "removed" exactly when the entry existed, flips the
\* membership of the pair and leaves every other entry alone; so the second
\* of two such toggles made one after the other for the same pair reports
\* the opposite of the first and restores the membership the pair had before
\* the first ("removed" then "added" if the entry existed, "added" then
\* "removed" otherwise).
C3_DoubleToggle ==
    [][ \A user_id \in UserIds, movie_id \in WatchMovieIds :
          Toggled(resp', user_id, movie_id) =>
            /\ resp'.flashes = <<MsgRemoved>> <=> <<user_id, movie_id>> \in Pairs(watchlist)
            /\ <<user_id, movie_id>> \in Pairs(watchlist')
                   <=> <<user_id, movie_id>> \notin Pairs(watchlist)
            /\ OtherEntries(watchlist', user_id, movie_id)
                   = OtherEntries(watchlist, user_id, movie_id)
            /\ Toggled(resp, user_id, movie_id) =>
                   /\ resp'.flashes # resp.flashes
                   /\ <<user_id, movie_id>> \in Pairs(watchlist')
                          <=> resp.flashes = <<MsgRemoved>>
      ]_vars

\* The second user has removed movie 2 again, and the entry of the first
\* user for the same movie is still there.
C3_Witness ==
    /\ Toggled(resp, 2, 2)
    /\ resp.flashes = <<MsgRemoved>>
    /\ Pairs(watchlist) = {<<1, 2>>}

\* C9: when the commit of a toggle fails, the handler flashes the generic
\* watchlist error after rolling back: the watchlist table is what it was
\* before the request, for a staged insert and for a staged delete.
C9_FailedCommitRollsBack ==
    [][ \A c \in Clients \cap {resp'.client},
           movie_id \in WatchMovieIds \cap {resp'.movie_id} :
          ( /\ resp'.op = "toggle_watchlist"
            /\ is_authenticated(c)
            /\ GetMovie(movie_id) # {}
            /\ toggle_watchlist(c, movie_id, TRUE) )
          => /\ watchlist' = watchlist
             /\ resp'.flashes[Len(resp'.flashes)] = MsgWatchlistError
      ]_vars

\* A toggle that staged a delete has failed to commit: the error is flashed
\* and the entry is still there.
C9_Witness ==
    /\ resp.op = "toggle_watchlist"
    /\ resp.flashes = <<MsgRemoved, MsgWatchlistError>>
    /\ <<resp.user, resp.movie_id>> \in Pairs(watchlist)

\* The username or the email of a registration belongs to an existing user
Taken(username, email) ==
    \E u \in users : u.username = username \/ u.email = email

UniqueUsers ==
    \A u1, u2 \in users :
        (u1.username = u2.username \/ u1.email = u2.email) => u1 = u2

\* C4 as claimed: every register call whose username or email belongs to an
\* existing user fails with the conflict message, creates no user and
\* establishes no session; no two users share a username or an email.
C4_DuplicateAlwaysConflict ==
    /\ []UniqueUsers
    /\ [][ \A c \in Clients \cap {resp'.client},
              username \in Usernames, email \in Emails,
              password \in NewPasswords, fail \in BOOLEAN :
             ( /\ resp'.op = "register"
               /\ Taken(username, email)
               /\ register(c, "POST", username, email, password, fail) )
             => /\ resp'.flashes = <<MsgConflict>>
                /\ users' = users
                /\ session' = session
         ]_vars

\* C4, amended: a register call whose username or email belongs to an
\* existing user creates no user and leaves every session as it is; made
\* without a logged-in session it fails with the conflict message, made on a
\* logged-in session it is redirected to the index page without a message.
\* In every reachable state no two users share a username or an email.
C4_DuplicateRejected ==
    /\ []UniqueUsers
    /\ [][ \A c \in Clients \cap {resp'.client},
              username \in Usernames, email \in Emails,
              password \in NewPasswords, fail \in BOOLEAN :
             ( /\ resp'.op = "register"
               /\ Taken(username, email)
               /\ register(c, "POST", username, email, password, fail) )
             => /\ users' = users
                /\ session' = session
                /\ IF is_authenticated(c)
                   THEN resp'.flashes = <<>> /\ resp'.target = "index"
                   ELSE resp'.flashes = <<MsgConflict>>
         ]_vars

\* An anonymous registration was refused as a conflict while two users exist
\* and the client has no session.
C4_Witness ==
    /\ resp.op = "register"
    /\ resp.user = Anonymous
    /\ resp.flashes = <<MsgConflict>>
    /\ Cardinality(users) = 2
    /\ session[resp.client] = Anonymous

\* C5 as claimed: a login made without a session succeeds exactly when some
\* user has the identity as username or as email and that user's stored
\* credential matches the password, and then binds the session to such a
\* user; otherwise it fails with the invalid-credentials message and binds
\* nothing. (So every user can log in with the own username and the own
\* email and the own password.)
C5_LoginExact ==
    [][ \A c \in Clients \cap {resp'.client},
           identity \in Usernames \cup Emails, password \in Passwords :
          ( /\ resp'.op = "login"
            /\ ~is_authenticated(c)
            /\ login(c, "POST", identity, password) )
          => LET entitled == {u \in users :
                                /\ u.username = identity \/ u.email = identity
                                /\ check_password_hash(u.password_hash, password)}
             IN  IF entitled # {}
                 THEN /\ session'[c] \in {u.id : u \in entitled}
                      /\ resp'.flashes = <<MsgWelcomeBack>>
                 ELSE /\ session'[c] = Anonymous
                      /\ resp'.flashes = <<MsgInvalidCredentials>>
      ]_vars

\* The user of that id has the privileged username
NamedAdmin(user_id) == \E u \in users : u.id = user_id /\ u.username = AdminName

\* C6: an add_movie or edit_movie request of a caller who is not logged in as
\* the user named "admin" is answered with an authorization message (access
\* denied, or the login redirect) and leaves the movie table unchanged; the
\* movie table changes only in add_movie and edit_movie requests that ran as
\* the user named "admin".
C6_OnlyAdminMutatesMovies ==
    [][ /\ (resp'.op \in {"add_movie", "edit_movie"} /\ ~NamedAdmin(resp'.user))
            => /\ movies' = movies
               /\ resp'.flashes \in {<<MsgAddDenied>>, <<MsgEditDenied>>, <<MsgLoginRequired>>}
        /\ movies' # movies
            => resp'.op \in {"add_movie", "edit_movie"} /\ NamedAdmin(resp'.user)
      ]_vars

\* The second user, logged in, was denied add_movie; the table is the seed.
C6_Witness ==
    /\ resp.op = "add_movie"
    /\ resp.user = 2
    /\ session[resp.client] = 2
    /\ resp.flashes = <<MsgAddDenied>>
    /\ movies = SeedMovies

ProtectedOps == {"toggle_watchlist", "watchlist", "submit_review", "add_movie", "edit_movie"}

\* C7: a request to toggle_watchlist, watchlist, submit_review, add_movie or
\* edit_movie made by a client without a logged-in session is answered with
\* the login-required message and the redirect to the login page, and leaves
\* users, movies, watchlist entries and reviews unchanged.
C7_GuardBeforeBody ==
    [][ (resp'.op \in ProtectedOps /\ ~is_authenticated(resp'.client))
          => /\ resp'.flashes = <<MsgLoginRequired>>
             /\ resp'.target = "login"
             /\ UNCHANGED <<users, movies, watchlist, reviews>>
      ]_vars

\* A review was submitted without a session after a second user had
\* registered: the answer is the login redirect.
C7_Witness ==
    /\ resp.op = "submit_review"
    /\ resp.movie_id = 2
    /\ session[resp.client] = Anonymous
    /\ resp.flashes = <<MsgLoginRequired>>
    /\ Cardinality(users) = 2

\* C8: submit_review by a logged-in user for an existing movie, with a rating
\* that is absent, not an integer or outside 1..5, or with an empty text,
\* answers with one of the validation messages and leaves the review table
\* unchanged.
C8_InvalidReviewRejected ==
    [][ \A c \in Clients \cap {resp'.client},
           movie_id \in ReviewMovieIds \cap {resp'.movie_id},
           rating \in Ratings, text \in Texts, fail \in BOOLEAN :
          ( /\ resp'.op = "submit_review"
            /\ is_authenticated(c)
            /\ GetMovie(movie_id) # {}
            /\ ~ValidReview(rating, text)
            /\ submit_review(c, movie_id, rating, text, fail) )
          => /\ reviews' = reviews
             /\ resp'.flashes \in {<<MsgReviewRequired>>, <<MsgInvalidRating>>, <<MsgRatingRange>>}
      ]_vars

\* A logged-in user's submission was refused for its rating being out of
\* range, and the user has no review of the movie.
C8_Witness ==
    /\ resp.op = "submit_review"
    /\ resp.user = 2
    /\ resp.flashes = <<MsgRatingRange>>
    /\ ReviewsOf(reviews, 2, resp.movie_id) = {}

\* C10 as claimed: when the scroll client has fetched pages 1, 2, 3, ... of
\* the unfiltered search of one snapshot of the movie table up to the first
\* empty page, the concatenated pages hold every movie exactly once, also
\* when movies share a release year.
C10_PagesCoverEveryMovieOnce ==
    crawl.done =>
        /\ Len(crawl.items) = Cardinality(movies)
        /\ {crawl.items[i] : i \in 1..Len(crawl.items)} = {m.id : m \in movies}

\* A watchlist entry or a review of a movie that is not in the movie table
Orphans ==
    {r.movie_id : r \in {x \in watchlist : GetMovie(x.movie_id) = {}}} \cup
    {r.movie_id : r \in {x \in reviews : GetMovie(x.movie_id) = {}}}

\* C11: movie_detail by any caller, and toggle_watchlist and submit_review by
\* a logged-in caller, on a movie id that is not in the movie table flash
\* "Movie not found." and redirect to the index page, and leave the watchlist
\* and the reviews as they were; in every reachable state every watchlist
\* entry and every review refers to a movie of the movie table.
C11_MissingMovieNotFound ==
    /\ [](Orphans = {})
    /\ [][ \A c \in Clients \cap {resp'.client},
              movie_id \in DetailMovieIds \cap {resp'.movie_id}, rating \in DetailRatings :
             ( /\ GetMovie(movie_id) = {}
               /\ \/ resp'.op = "movie_detail" /\ movie_detail(c, movie_id)
                  \/ /\ resp'.op = "toggle_watchlist"
                     /\ is_authenticated(c)
                     /\ toggle_watchlist(c, movie_id, FALSE)
                  \/ /\ resp'.op = "submit_review"
                     /\ is_authenticated(c)
                     /\ submit_review(c, movie_id, rating, Field("great"), FALSE) )
             => /\ resp'.flashes = <<MsgMovieNotFound>>
                /\ resp'.target = "index"
                /\ watchlist' = watchlist
                /\ reviews' = reviews
                /\ detail' = detail
         ]_vars

\* A logged-in caller with an entry on the watchlist was told that the movie
\* of the toggle does not exist.
C11_Witness ==
    /\ resp.op = "toggle_watchlist"
    /\ resp.user # Anonymous
    /\ resp.flashes = <<MsgMovieNotFound>>
    /\ GetMovie(resp.movie_id) = {}
    /\ watchlist # {}

\* C12: a POST of add_movie or of edit_movie (on a movie of the table) by
\* the admin whose year int() does not accept flashes the invalid-year
\* message and leaves the movie table as it was: no movie is inserted and
\* every field of the targeted movie, title, genre and poster included,
\* keeps its value.
C12_BadYearChangesNothing ==
    [][ \A c \in Clients \cap {resp'.client}, form \in Forms, fail \in BOOLEAN :
          /\ ( /\ resp'.op = "add_movie"
               /\ is_authenticated(c)
               /\ current_username(c) = AdminName
               /\ ~ParseInt(form.year).ok
               /\ add_movie(c, "POST", form, fail) )
             => /\ resp'.flashes = <<MsgInvalidYear>>
                /\ resp'.target = "add_movie.html"
                /\ movies' = movies
          /\ \A movie_id \in SomeMovieIds \cap {resp'.movie_id} :
                ( /\ resp'.op = "edit_movie"
                  /\ is_authenticated(c)
                  /\ current_username(c) = AdminName
                  /\ GetMovie(movie_id) # {}
                  /\ ~ParseInt(form.year).ok
                  /\ edit_movie(c, movie_id, "POST", form, fail) )
                => /\ resp'.flashes = <<MsgInvalidYear>>
                   /\ resp'.target = "add_movie.html"
                   /\ movies' = movies
      ]_vars

\* The admin's edit of an existing movie was refused for its year, after
\* the admin had added a movie.
C12_Witness ==
    /\ resp.op = "edit_movie"
    /\ current_username(resp.client) = AdminName
    /\ resp.flashes = <<MsgInvalidYear>>
    /\ GetMovie(resp.movie_id) # {}
    /\ Cardinality(movies) > Cardinality(SeedMovies)
    /\ SeedMovies \subseteq movies

\* C13 as claimed: every logout, made with or without a logged-in session,
\* leaves the client without a session and the other clients' sessions as
\* they were, and has the outcome of a logout (the logged-out message and
\* the index page), never an error; so a logout after a logout ends as one
\* logout does.
C13_LogoutIdempotent ==
    [][ \A c \in Clients \cap {resp'.client} :
          ( resp'.op = "logout" /\ logout(c) )
          => /\ session' = [session EXCEPT ![c] = Anonymous]
             /\ CurrentUser(c)' = Anonymous
             /\ resp'.flashes = <<MsgLoggedOut>>
             /\ resp'.target = "index"
      ]_vars

\* C14 as claimed: a register call with an empty username, an empty email,
\* an empty password or an email that is not an address creates no user
\* and logs nobody in, also when no user has the username or the email.
C14_RegisterRechecksInputs ==
    [][ \A c \in Clients \cap {resp'.client}, form \in UncheckedForms :
          ( /\ resp'.op = "register"
            /\ \/ "" \in {form.username, form.email, form.password}
               \/ form.email \in MalformedEmails
            /\ register(c, "POST", form.username, form.email, form.password, FALSE) )
          => /\ users' = users
             /\ session' = session
      ]_vars

\* C15 as claimed: when a submit_review request that read "no review of the
\* pair" commits after another request has inserted a review of the pair,
\* its INSERT is refused and rolled back (the table keeps exactly the one
\* row of the pair) and the request reports the already-reviewed message
\* and nothing else: no success outcome is reported for it.
C15_RaceReportedAsAlreadyReviewed ==
    [][ \A w \in Workers :
          ( /\ resp'.op = "submit_review"
            /\ txn[w].pc = "staged"
            /\ txn[w].change.kind = "insert"
            /\ <<txn[w].change.user_id, txn[w].change.movie_id>> \in Pairs(reviews)
            /\ review_commit(w, FALSE) )
          => /\ reviews' = reviews
             /\ Cardinality({r \in reviews' : /\ r.user_id = txn[w].change.user_id
                                               /\ r.movie_id = txn[w].change.movie_id}) = 1
             /\ resp'.flashes = <<MsgReviewError>>
      ]_vars

\* The messages of a response, as a set
Flashed(r) == {r.flashes[i] : i \in DOMAIN r.flashes}

\* C16 as claimed: in every toggle_watchlist request of a logged-in caller on
\* an existing movie, whether or not its commit fails, "added" is flashed
\* only if the entry of the pair was inserted and is in the table when the
\* request ends, and "removed" only if the entry was deleted and is absent.
C16_ReportedOutcomeIsMembership ==
    [][ \A c \in Clients \cap {resp'.client},
           movie_id \in WatchMovieIds \cap {resp'.movie_id}, fail \in BOOLEAN :
          ( /\ resp'.op = "toggle_watchlist"
            /\ is_authenticated(c)
            /\ toggle_watchlist(c, movie_id, fail) )
          => /\ MsgAdded \in Flashed(resp')
                => /\ <<CurrentUser(c), movie_id>> \in Pairs(watchlist')
                   /\ <<CurrentUser(c), movie_id>> \notin Pairs(watchlist)
             /\ MsgRemoved \in Flashed(resp')
                => /\ <<CurrentUser(c), movie_id>> \notin Pairs(watchlist')
                   /\ <<CurrentUser(c), movie_id>> \in Pairs(watchlist)
      ]_vars

\* C17: in every reachable state (the seeded store and whatever
\* submit_review requests created or updated since) every review row has an
\* integer rating between 1 and 5 and a text that is not empty.
C17_StoredReviewsValid ==
    \A r \in reviews : r.rating \in 1..5 /\ r.text # ""

\* A second user's review was created with a rating other than the seeded
\* one, and the seeded review has been rewritten by an update.
C17_Witness ==
    /\ resp.op = "submit_review"
    /\ resp.flashes = <<MsgReviewPosted>>
    /\ reviews \cap SeedReviews = {}
    /\ Cardinality(reviews) = 2
    /\ \E r \in reviews : r.user_id = resp.user /\ r.rating = 3

\* The list without the movie
Without(list, movie_id) == SelectSeq(list, LAMBDA m : m # movie_id)

\* C18: the watchlist page of a user lists exactly the movies the user has
\* an entry for, each once, the most recently added first: a toggle that
\* adds a movie puts it in front of the user's list and keeps the rest in
\* order (also when the movie had been on the list and was removed
\* before), a toggle that removes a movie takes it out and keeps the rest
\* in order, and no toggle changes the list of another user.
C18_ListedByRecency ==
    [][ \A c \in Clients \cap {resp'.client} :
          /\ ( resp'.op = "watchlist" /\ is_authenticated(c) /\ watchlist_view(c) )
             => /\ {resp'.body[i] : i \in DOMAIN resp'.body} =
                      {r.movie_id : r \in {x \in watchlist : x.user_id = CurrentUser(c)}}
                /\ \A i, j \in DOMAIN resp'.body :
                      resp'.body[i] = resp'.body[j] => i = j
                /\ resp'.body = WatchlistMovies(CurrentUser(c))
          /\ \A movie_id \in WatchMovieIds \cap {resp'.movie_id}, fail \in BOOLEAN :
                ( /\ resp'.op = "toggle_watchlist"
                  /\ is_authenticated(c)
                  /\ toggle_watchlist(c, movie_id, fail) )
                => LET u == CurrentUser(c)
                       before == WatchlistMovies(u)
                       after == WatchlistMovies(u)'
                       pair == <<u, movie_id>>
                   IN  /\ (pair \in Pairs(watchlist') /\ pair \notin Pairs(watchlist))
                          => after = <<movie_id>> \o before
                       /\ (pair \notin Pairs(watchlist') /\ pair \in Pairs(watchlist))
                          => after = Without(before, movie_id)
                       /\ Pairs(watchlist') = Pairs(watchlist) => after = before
                       /\ \A v \in UserIds \ {u} :
                             WatchlistMovies(v)' = WatchlistMovies(v)
      ]_vars

\* The user's page lists movie 1 before movie 2, and the entry of movie 1
\* has the third row id: movie 1 was added after two other entries.
C18_Witness ==
    /\ resp.op = "watchlist"
    /\ resp.user # Anonymous
    /\ resp.body = <<1, 2>>
    /\ watchlist = { [id |-> 2, user_id |-> resp.user, movie_id |-> 2],
                     [id |-> 3, user_id |-> resp.user, movie_id |-> 1] }

\* The total of the ratings of rows whose ratings are between 1 and 5
RatingTotal(rows) ==
    1 * Cardinality({r \in rows : r.rating = 1}) +
    2 * Cardinality({r \in rows : r.rating = 2}) +
    3 * Cardinality({r \in rows : r.rating = 3}) +
    4 * Cardinality({r \in rows : r.rating = 4}) +
    5 * Cardinality({r \in rows : r.rating = 5})

Distance(a, b) == IF a <= b THEN b - a ELSE a - b

\* C19: movie_detail of a movie of the table hands the template 'N/A' as
\* the average exactly when no review of the movie exists; otherwise the
\* tenth nearest to the mean of the ratings of all the reviews of the movie
\* (a single review rated 5 gives 5.0); and in both cases exactly the
\* reviews of the movie.
C19_AverageOfTheMovie ==
    [][ \A c \in Clients \cap {resp'.client},
           movie_id \in DetailMovieIds \cap {resp'.movie_id} :
          ( /\ resp'.op = "movie_detail"
            /\ GetMovie(movie_id) # {}
            /\ movie_detail(c, movie_id) )
          => LET rows == {r \in reviews : r.movie_id = movie_id}
                 n == Cardinality(rows)
             IN  /\ detail'.movie_id = movie_id
                 /\ detail'.reviews = rows
                 /\ detail'.avg_rating.kind = "N/A" <=> n = 0
                 /\ n > 0 =>
                       /\ detail'.avg_rating.kind = "float"
                       /\ 2 * Distance(n * detail'.avg_rating.tenths,
                                       10 * RatingTotal(rows)) <= n
                 /\ (n = 1 /\ \A r \in rows : r.rating = 5)
                       => detail'.avg_rating.tenths = 50
      ]_vars

\* The detail page of a movie with two reviews, rated 5 and 4, shows 4.5
C19_Witness ==
    /\ resp.op = "movie_detail"
    /\ resp.movie_id = detail.movie_id
    /\ detail.reviews = {r \in reviews : r.movie_id = detail.movie_id}
    /\ {r.rating : r \in detail.reviews} = {4, 5}
    /\ detail.avg_rating = [kind |-> "float", tenths |-> 45]

\* The rows of a table that belong to other users than user_id
RowsOfOthers(table, user_id) == {r \in table : r.user_id # user_id}

\* C20: a toggle_watchlist or submit_review request of a client logged in
\* as user u leaves every watchlist entry and every review of every other
\* user as it was: none is created, changed or deleted.
C20_OtherUsersRowsUnchanged ==
    [][ \A c \in Clients \cap {resp'.client},
           movie_id \in SomeMovieIds \cap {resp'.movie_id} :
          ( /\ is_authenticated(c)
            /\ \/ resp'.op = "toggle_watchlist" /\ toggle_watchlist(c, movie_id, FALSE)
               \/ /\ resp'.op = "submit_review"
                  /\ \E rating \in SomeRatings :
                         submit_review(c, movie_id, rating, Field("great"), FALSE) )
          => /\ RowsOfOthers(watchlist', CurrentUser(c)) = RowsOfOthers(watchlist, CurrentUser(c))
             /\ RowsOfOthers(reviews', CurrentUser(c)) = RowsOfOthers(reviews, CurrentUser(c))
      ]_vars

\* A user removed an entry while another user has an entry for the same
\* movie and both users have a review.
C20_Witness ==
    /\ resp.op = "toggle_watchlist"
    /\ resp.flashes = <<MsgRemoved>>
    /\ \E r \in watchlist : r.user_id # resp.user /\ r.movie_id = resp.movie_id
    /\ \E r \in reviews : r.user_id # resp.user
    /\ \E r \in reviews : r.user_id = resp.user

\* C21: while the session of a client is bound to a user, no request
\* binds it to another user, and only a logout of that client unbinds it;
\* a login or a register request made on the bound session, whatever
\* identity, password or fields it carries, is redirected to the index
\* page, leaves every session as it is and creates no user.
C21_BoundSessionKeepsIdentity ==
    [][ \A c \in Clients :
          session[c] # Anonymous =>
            /\ session'[c] \in {session[c], Anonymous}
            /\ session'[c] = Anonymous => (resp'.op = "logout" /\ resp'.client = c)
            /\ ( /\ resp'.client = c
                 /\ \/ /\ resp'.op = "login"
                       /\ \E identity \in Usernames \cup Emails, password \in Passwords :
                              login(c, "POST", identity, password)
                    \/ /\ resp'.op = "register"
                       /\ \E username \in Usernames, email \in Emails,
                             password \in NewPasswords, fail \in BOOLEAN :
                              register(c, "POST", username, email, password, fail) )
               => /\ users' = users
                  /\ session' = session
                  /\ resp'.target = "index"
                  /\ resp'.flashes = <<>>
      ]_vars

\* A login request on a session bound to one of two users was redirected
\* while the other client is logged in as the other user.
C21_Witness ==
    /\ resp.op = "login"
    /\ resp.user # Anonymous
    /\ resp.target = "index"
    /\ resp.flashes = <<>>
    /\ session[resp.client] = resp.user
    /\ Cardinality(users) = 2
    /\ \E c \in Clients : session[c] \notin {Anonymous, resp.user}

====
